---- MODULE Spec2Model ----
(***************************************************************************)
(* Status reconciliation of scheduled YouTube publish jobs.                *)
(*                                                                         *)
(* The Job Store (storage/jobs.json), the state of the videos on the       *)
(* platform and the wall clock are the state; GET /api/videos/jobs         *)
(* (get_jobs) is the operation that merges them into the list of videos    *)
(* that are scheduled and not yet public.                                  *)
(***************************************************************************)
EXTENDS Integers, Sequences, FiniteSets, TLC

\* ------------------------------------------------------------------ bounds
MaxJobs  == 1      \* job ids 1..MaxJobs, in the order jobs.json holds them
MaxExtra == 1      \* videos on the platform that no schedule request uploaded
MaxSec   == 1      \* whole seconds 1..MaxSec appear in timestamps
MaxVideos == 2     \* videos in the payload of one schedule request
MaxFailed == 1     \* failure records the log holds under schedule requests

\* max_entries of save_failed_video, as schedule_videos passes it
MaxEntries == 20

JobIds   == 1..MaxJobs

\* The job ids of the runs in which two threads write the store: one more,
\* so that two jobs exist.
RaceJobIds == 1..(MaxJobs + 1)
VideoIds == 1..(MaxJobs + MaxExtra)
MaxNow   == 2 * MaxSec + 1          \* the clock counts half seconds

Users    == {"u1", "u2"}
Channels == <<"c1", "c2">>          \* token dict order of a user
ChannelSet == {Channels[i] : i \in 1..Len(Channels)}

NoVideo == 0                        \* video_id None

JobStatus == {"pending", "uploaded", "scheduled", "published", "failed"}

\* ------------------------------------------------------ ISO-8601 strings
\* A timestamp string is kept by its parts: the 19 characters
\* YYYY-MM-DDTHH:MM:SS (sec), an optional ".500000" (frac = 1) and the
\* zone suffix.  datetime.isoformat() of an aware UTC datetime ends in
\* "+00:00" and prints the microseconds only when they are not zero; the
\* platform's publishAt is whole seconds ending in "Z".
NoTime == [sec |-> 0, frac |-> 0, sfx |-> "none"]

IsoUtc(s, f) == [sec |-> s, frac |-> f, sfx |-> "+00:00"]

IsoZ(s) == [sec |-> s, frac |-> 0, sfx |-> "Z"]

\* The target instants of jobs: whole seconds, and one with microseconds.
JobTimes == {IsoUtc(s, 0) : s \in 1..MaxSec} \cup {IsoUtc(MaxSec, 1)}

RemoteTimes == {IsoZ(s) : s \in 1..MaxSec}

\* A publishAt the owner of a video can move it to: past every target.
RescheduleTimes == {IsoZ(MaxSec + 1)}

\* datetime.fromisoformat(x.replace('Z', '+00:00')): the instant, in half
\* seconds.
fromisoformat(ts) == 2 * ts.sec + ts.frac

\* datetime.now(timezone.utc).isoformat()
now_isoformat(t) == IsoUtc(t \div 2, t % 2)

\* What follows the 19th character, ranked as Python compares str:
\* '+' (0x2B) < '.' (0x2E) < 'Z' (0x5A).
TailRank(ts) ==
    IF ts.frac = 0
    THEN (IF ts.sfx = "+00:00" THEN 0 ELSE 3)
    ELSE (IF ts.sfx = "+00:00" THEN 1 ELSE 2)

\* a <= b as Python str
StrLeq(a, b) ==
    \/ a.sec < b.sec
    \/ a.sec = b.sec /\ TailRank(a) <= TailRank(b)

\* ------------------------------------------------------------------ state
VARIABLES
    jobs,     \* the Job Store: job id -> record (a dict, keys in id order)
    remote,   \* the platform: video id -> its state there
    now,      \* datetime.now(timezone.utc), in half seconds
    resp,     \* the last response of the API, until the world moves on
    timers,   \* the jobs the BackgroundScheduler holds: a set of timers
    errors,   \* the error_message fields of jobs.json: job id -> text
    failed_videos,  \* failed_videos.json: the list of the followed user's
                    \* credentialed channel
    inflight  \* the store writes of the threads: those that have read
              \* jobs.json and, marked done, the last that has written it

vars == <<jobs, remote, now, resp, timers, errors, failed_videos, inflight>>

\* The failure log and the store writes under way.
logs == <<failed_videos, inflight>>

\* What lives next to the store and the platform: the timers of the
\* process, the error messages, the failure log and the writes under way.
backstop == <<timers, errors, logs>>

NoError == ""                       \* error_message None

\* str(e) of what the platform client raises
ErrorTexts == {"Privacy update error", "No token found"}

NoRemote == [exists |-> FALSE, privacy_status |-> "", publish_at |-> NoTime,
             channel |-> ""]

Idle == [op |-> "idle", user |-> "", channel_id |-> "",
         listed |-> {}, fetch |-> [j \in JobIds |-> "na"],
         status |-> [j \in JobIds |-> "na"], jobs |-> <<>>]

\* ------------------------------------------------------------ helpers
RECURSIVE IdSeq(_)
\* The elements of a finite set of integers, in increasing order (the order
\* in which a dict filled in id order is iterated).
IdSeq(S) ==
    IF S = {} THEN <<>>
    ELSE LET m == CHOOSE x \in S : \A y \in S : x <= y
         IN  <<m>> \o IdSeq(S \ {m})

RECURSIVE Concat(_)
Concat(ss) == IF ss = <<>> THEN <<>> ELSE Head(ss) \o Concat(Tail(ss))

Range(s) == {s[i] : i \in 1..Len(s)}

\* The sub-sequences of Channels: the channels get_channels can return.
ChannelLists ==
    {SelectSeq(Channels, LAMBDA c : c \in S) : S \in SUBSET ChannelSet}

\* ------------------------------------------------------------- the store
\* StorageManager.get_user_jobs, on a store
user_jobs_in(store, u) ==
    IdSeq({j \in DOMAIN store : store[j].user_id = u})

\* StorageManager.get_user_jobs
get_user_jobs(u) == user_jobs_in(jobs, u)

\* ---------------------------------------------------------- the platform
\* YouTubeClient.get_scheduled_videos: the ids of the channel's videos that
\* are private or unlisted and carry a publishAt.
get_scheduled_videos(ch) ==
    IdSeq({v \in VideoIds :
              /\ remote[v].exists
              /\ remote[v].channel = ch
              /\ remote[v].privacy_status \in {"private", "unlisted"}
              /\ remote[v].publish_at # NoTime})

\* YouTubeClient.get_video_status: raises, returns None or the status.
get_video_status(v, fails) ==
    IF fails THEN "error"
    ELSE IF ~remote[v].exists THEN "none"
    ELSE "ok"

\* ------------------------------------------------------ get_jobs, per job
Outcome(st, inc) == [status |-> st, include |-> inc]

\* A variant of ResolveFetched that does not single out public videos.
ResolveFetchedPublicUnchecked(job, video_status, t) ==
    IF video_status.publish_at # NoTime
    THEN IF fromisoformat(video_status.publish_at) <= t
         THEN Outcome("published", FALSE)
         ELSE Outcome("scheduled", TRUE)
    ELSE IF fromisoformat(job.publish_datetime) > t
    THEN Outcome("scheduled", TRUE)
    ELSE Outcome("uploaded", FALSE)

\* A variant of ResolveFetched that still lists a video at its publishAt.
ResolveFetchedLateByOne(job, video_status, t) ==
    IF video_status.privacy_status = "public"
    THEN Outcome("published", FALSE)
    ELSE IF video_status.publish_at # NoTime
    THEN IF fromisoformat(video_status.publish_at) < t
         THEN Outcome("published", FALSE)
         ELSE Outcome("scheduled", TRUE)
    ELSE IF fromisoformat(job.publish_datetime) > t
    THEN Outcome("scheduled", TRUE)
    ELSE Outcome("uploaded", FALSE)

\* A variant of ResolveFetched that takes a job whose own target is now
\* as still scheduled.
ResolveFetchedOwnTargetDue(job, video_status, t) ==
    IF video_status.privacy_status = "public"
    THEN Outcome("published", FALSE)
    ELSE IF video_status.publish_at # NoTime
    THEN IF fromisoformat(video_status.publish_at) <= t
         THEN Outcome("published", FALSE)
         ELSE Outcome("scheduled", TRUE)
    ELSE IF fromisoformat(job.publish_datetime) >= t
    THEN Outcome("scheduled", TRUE)
    ELSE Outcome("uploaded", FALSE)

\* get_video_status returned a status: the platform's privacy and publishAt
\* decide.
ResolveFetched(job, video_status, t) ==
    LET youtube_privacy == video_status.privacy_status
        publish_at      == video_status.publish_at
    IN  IF youtube_privacy = "public"
        THEN Outcome("published", FALSE)
        ELSE IF youtube_privacy \in {"private", "unlisted"}
                /\ publish_at # NoTime
        THEN IF fromisoformat(publish_at) <= t
             THEN Outcome("published", FALSE)
             ELSE Outcome("scheduled", TRUE)
        ELSE IF youtube_privacy \in {"private", "unlisted"}
        THEN IF job.publish_datetime # NoTime
                /\ fromisoformat(job.publish_datetime) > t
             THEN Outcome("scheduled", TRUE)
             ELSE Outcome("uploaded", FALSE)
        ELSE Outcome("uploaded", FALSE)

\* A variant of ResolveOnError that does not look at the recorded status.
ResolveOnErrorAnyStatus(job, t) ==
    IF fromisoformat(job.publish_datetime) > t
    THEN Outcome("scheduled", TRUE)
    ELSE Outcome(job.status, FALSE)

\* get_video_status raised: the job's own record decides.
ResolveOnError(job, t) ==
    IF fromisoformat(job.publish_datetime) > t
       /\ job.status \in {"scheduled", "uploaded"}
    THEN Outcome("scheduled", TRUE)
    ELSE Outcome(job.status, FALSE)

\* A variant of ResolveNoVideo that does not count pending uploads.
ResolveNoVideoNotPending(job, t) ==
    IF fromisoformat(job.publish_datetime) > t
       /\ job.status \in {"scheduled", "uploaded"}
    THEN Outcome(job.status, TRUE)
    ELSE Outcome(job.status, FALSE)

\* The job has no video_id yet.
ResolveNoVideo(job, t) ==
    IF fromisoformat(job.publish_datetime) > t
       /\ job.status \in {"scheduled", "uploaded", "pending"}
    THEN Outcome(job.status, TRUE)
    ELSE Outcome(job.status, FALSE)

\* The status get_jobs resolves for one job and whether the job is listed
\* (is_scheduled_and_not_public).  kind is what get_video_status gave:
\* "ok", "none" (None: the platform has no such video) or "error".
ResolveJob(job, kind, t) ==
    IF job.video_id # NoVideo /\ job.channel_id # ""
    THEN IF kind = "ok" THEN ResolveFetched(job, remote[job.video_id], t)
         ELSE IF kind = "none" THEN Outcome(job.status, FALSE)
         ELSE ResolveOnError(job, t)
    ELSE ResolveNoVideo(job, t)

\* A variant of Unconsumed that takes nothing out of the listing.
UnconsumedKeepsAll(listing, consumed) == listing

\* What is left of the youtube_scheduled_videos dict once the video ids of
\* the listed jobs were deleted from it.
Unconsumed(listing, consumed) ==
    SelectSeq(listing, LAMBDA v : v \notin consumed)

\* A variant of StillScheduled that takes a publishAt of now as future.
StillScheduledOrDue(publish_at, t) ==
    publish_at # NoTime /\ fromisoformat(publish_at) >= t

\* A listed video not in the store is added when its publishAt is ahead.
StillScheduled(publish_at, t) ==
    publish_at # NoTime /\ fromisoformat(publish_at) > t

\* ------------------------------------------------------- get_jobs, whole
JobEntry(job, st) ==
    [job_id |-> [pfx |-> "", id |-> job.job_id], video_id |-> job.video_id,
     status |-> st, publish_datetime |-> job.publish_datetime,
     channel_id |-> job.channel_id, user_id |-> job.user_id,
     from_youtube |-> FALSE]

YouTubeEntry(v, u, channel_id, channels_to_check) ==
    [job_id |-> [pfx |-> "youtube_", id |-> v], video_id |-> v,
     status |-> "scheduled", publish_datetime |-> remote[v].publish_at,
     channel_id |-> IF channel_id # "" THEN channel_id
                    ELSE IF channels_to_check # <<>> THEN channels_to_check[1]
                    ELSE "",
     user_id |-> u, from_youtube |-> TRUE]

RECURSIVE InsertByKey(_, _)
\* Where list.sort(key=publish_datetime) puts e in a sorted s: behind
\* every element whose key is <= its own (the sort is stable).
InsertByKey(e, s) ==
    IF s = <<>> THEN <<e>>
    ELSE IF StrLeq(Head(s).publish_datetime, e.publish_datetime)
    THEN <<Head(s)>> \o InsertByKey(e, Tail(s))
    ELSE <<e>> \o s

RECURSIVE SortByPublish(_)
SortByPublish(s) ==
    IF s = <<>> THEN <<>>
    ELSE InsertByKey(s[Len(s)], SortByPublish(SubSeq(s, 1, Len(s) - 1)))

\* A variant of ScheduledVideosMap in which one listing that raises loses
\* the listings of all channels.
ScheduledVideosMapAllOrNone(channels_to_check, listFail) ==
    IF \E i \in 1..Len(channels_to_check) : channels_to_check[i] \in listFail
    THEN <<>>
    ELSE Concat([i \in 1..Len(channels_to_check) |->
                   get_scheduled_videos(channels_to_check[i])])

\* The youtube_scheduled_videos dict as first filled: the listings of the
\* channels whose fetch did not raise, in channel order.
ScheduledVideosMap(channels_to_check, listFail) ==
    Concat([i \in 1..Len(channels_to_check) |->
              IF channels_to_check[i] \in listFail THEN <<>>
              ELSE get_scheduled_videos(channels_to_check[i])])

\* The response of get_jobs over a store, for user u, query parameter
\* channel_id ("" when not given), the channels get_channels returned, the
\* channels whose listing raised and the jobs whose status fetch raised.
get_jobs_in(store, u, channel_id, connected, listFail, statusFail) ==
    LET user_jobs == user_jobs_in(store, u)
        channels_to_check ==
            IF channel_id # "" THEN <<channel_id>> ELSE connected
        youtube_scheduled_videos ==
            ScheduledVideosMap(channels_to_check, listFail)
        current_time == now
        kind(j) == IF store[j].video_id # NoVideo /\ store[j].channel_id # ""
                   THEN get_video_status(store[j].video_id, j \in statusFail)
                   ELSE "skipped"
        out(j) == ResolveJob(store[j], kind(j), current_time)
        kept == SelectSeq(user_jobs, LAMBDA j : out(j).include)
        from_db == [i \in 1..Len(kept) |->
                       JobEntry(store[kept[i]], out(kept[i]).status)]
        consumed == {store[kept[i]].video_id : i \in 1..Len(kept)}
        left == Unconsumed(youtube_scheduled_videos, consumed)
        future == SelectSeq(left,
                     LAMBDA v : StillScheduled(remote[v].publish_at,
                                               current_time))
        from_yt == [i \in 1..Len(future) |->
                       YouTubeEntry(future[i], u, channel_id,
                                    channels_to_check)]
    IN  [op |-> "get_jobs", user |-> u, channel_id |-> channel_id,
         listed |-> Range(youtube_scheduled_videos),
         fetch |-> [j \in JobIds |->
                       IF j \in Range(user_jobs) THEN kind(j) ELSE "na"],
         status |-> [j \in JobIds |->
                       IF j \in Range(user_jobs) THEN out(j).status
                       ELSE "na"],
         jobs |-> SortByPublish(from_db \o from_yt)]

\* get_jobs reads the Job Store.
get_jobs(u, channel_id, connected, listFail, statusFail) ==
    get_jobs_in(jobs, u, channel_id, connected, listFail, statusFail)

\* ------------------------------------------------- sync_jobs_with_youtube
\* A variant of update_job_status that writes a record for an id the store
\* does not hold.
update_job_status_upsert(store, job_id, status, video_id) ==
    [j \in DOMAIN store \cup {job_id} |->
        IF j = job_id
        THEN [job_id |-> job_id, user_id |-> "u1", channel_id |-> "c1",
              video_id |-> video_id, status |-> status,
              publish_datetime |-> IsoUtc(MaxSec, 0)]
        ELSE store[j]]

\* StorageManager.update_job_status on the store: a no-op for an id the
\* store does not hold; the video id is written when one is given.
update_job_status(store, job_id, status, video_id) ==
    IF job_id \in DOMAIN store
    THEN [store EXCEPT ![job_id].status = status,
                       ![job_id].video_id =
                           IF video_id # NoVideo THEN video_id ELSE @]
    ELSE store

\* A variant of update_error_message that writes the text it is given,
\* empty or not.
update_error_message_always(store, errs, job_id, error_message) ==
    IF job_id \in DOMAIN store
    THEN [errs EXCEPT ![job_id] = error_message]
    ELSE errs

\* StorageManager.update_job_status on the error messages: the text is
\* written when it is not empty.
update_error_message(store, errs, job_id, error_message) ==
    IF job_id \in DOMAIN store /\ error_message # NoError
    THEN [errs EXCEPT ![job_id] = error_message]
    ELSE errs

\* new_status of sync_jobs_with_youtube (and the status get_job_status
\* shows): only a private video with a publishAt is scheduled.
NewStatus(video_status, t) ==
    LET youtube_privacy == video_status.privacy_status
        publish_at      == video_status.publish_at
    IN  IF youtube_privacy = "public" THEN "published"
        ELSE IF youtube_privacy = "private" /\ publish_at # NoTime
        THEN (IF fromisoformat(publish_at) <= t
              THEN "published" ELSE "scheduled")
        ELSE "uploaded"

\* A variant of StatusDiffers that writes every fetched job.
StatusDiffersAlways(job, new_status) == TRUE

\* if job.get('status') != new_status
StatusDiffers(job, new_status) == job.status # new_status

\* A variant of SyncedCount that counts every job of the user.
SyncedCountAll(user_jobs, changed) == Len(user_jobs)

\* synced_count: one for every job that was written.
SyncedCount(user_jobs, changed) == Cardinality(changed)

\* sync_jobs_with_youtube over a store, for user u, when the status fetch
\* raises for the jobs in statusFail: the store after the call and the
\* response.
sync_in(store, u, statusFail) ==
    LET user_jobs == user_jobs_in(store, u)
        kind(j) == IF store[j].video_id # NoVideo /\ store[j].channel_id # ""
                   THEN get_video_status(store[j].video_id, j \in statusFail)
                   ELSE "skipped"
        new_status(j) == NewStatus(remote[store[j].video_id], now)
        changed == {j \in Range(user_jobs) :
                       /\ kind(j) = "ok"
                       /\ StatusDiffers(store[j], new_status(j))}
    IN  [store |-> [j \in DOMAIN store |->
                      IF j \in changed
                      THEN update_job_status(store, j, new_status(j),
                                             store[j].video_id)[j]
                      ELSE store[j]],
         response |-> [op |-> "sync", user |-> u,
                       synced |-> SyncedCount(user_jobs, changed),
                       total_jobs |-> Len(user_jobs),
                       fetch |-> [j \in JobIds |->
                                    IF j \in Range(user_jobs) THEN kind(j)
                                    ELSE "na"]]]

\* sync_jobs_with_youtube reads and writes the Job Store.
sync_jobs_with_youtube(u, statusFail) == sync_in(jobs, u, statusFail)

\* ------------------------------------------------------------ JobManager
\* A variant of add_job that keeps the timers an id already has.
add_job_keeping(tm, timer) == tm \cup {timer}

\* scheduler.add_job(..., id=job_id, replace_existing=True)
add_job(tm, timer) == {x \in tm : x.job_id # timer.job_id} \cup {timer}

\* JobManager.schedule_publish: the timer holds what publish_video closes
\* over and the run_date of its DateTrigger.
schedule_publish(tm, user_id, channel_id, video_id, publish_datetime, job_id) ==
    add_job(tm, [job_id |-> job_id, run_date |-> publish_datetime,
                 user_id |-> user_id, channel_id |-> channel_id,
                 video_id |-> video_id])

\* A variant of Due under which a timer runs at any time.
DueAnyTime(timer, t) == TRUE

\* The DateTrigger of a timer has come.
Due(timer, t) == fromisoformat(timer.run_date) <= t

\* YouTubeClient.update_video_privacy(video_id, "public") on the platform
update_video_privacy(rem, video_id) ==
    [rem EXCEPT ![video_id].privacy_status = "public",
                ![video_id].publish_at = NoTime]

\* A variant of publish_video that marks the job failed without a message.
publish_video_silent(timer, raised, text) ==
    IF raised
    THEN [store |-> update_job_status(jobs, timer.job_id, "failed",
                                      timer.video_id),
          errs |-> errors, rem |-> remote, attempts |-> 1]
    ELSE [store |-> update_job_status(jobs, timer.job_id, "published",
                                      timer.video_id),
          errs |-> errors,
          rem |-> update_video_privacy(remote, timer.video_id),
          attempts |-> 1]

\* A variant of publish_video that puts a failed job back to pending.
publish_video_pending(timer, raised, text) ==
    IF raised
    THEN [store |-> update_job_status(jobs, timer.job_id, "pending",
                                      timer.video_id),
          errs |-> update_error_message(jobs, errors, timer.job_id, text),
          rem |-> remote, attempts |-> 1]
    ELSE [store |-> update_job_status(jobs, timer.job_id, "published",
                                      timer.video_id),
          errs |-> errors,
          rem |-> update_video_privacy(remote, timer.video_id),
          attempts |-> 1]

\* publish_video of schedule_publish, run for a timer: one call of
\* update_video_privacy that raises with str(e) = text or goes through.
publish_video(timer, raised, text) ==
    IF raised
    THEN [store |-> update_job_status(jobs, timer.job_id, "failed",
                                      timer.video_id),
          errs |-> update_error_message(jobs, errors, timer.job_id, text),
          rem |-> remote, attempts |-> 1]
    ELSE [store |-> update_job_status(jobs, timer.job_id, "published",
                                      timer.video_id),
          errs |-> errors,
          rem |-> update_video_privacy(remote, timer.video_id),
          attempts |-> 1]

\* A variant of get_job_status that reads "scheduled" off the stored
\* status.
get_job_status_by_status(job_id) ==
    IF job_id \notin DOMAIN jobs THEN [found |-> FALSE]
    ELSE [found |-> TRUE, job_id |-> job_id, status |-> jobs[job_id].status,
          scheduled |-> jobs[job_id].status = "scheduled",
          next_run_time |-> IF jobs[job_id].status = "scheduled"
                            THEN jobs[job_id].publish_datetime ELSE NoTime]

\* JobManager.get_job_status: None for an id the store does not hold, else
\* the stored job with scheduled and, when a timer is held, next_run_time.
get_job_status(job_id) ==
    IF job_id \notin DOMAIN jobs THEN [found |-> FALSE]
    ELSE LET held == {t \in timers : t.job_id = job_id}
         IN  [found |-> TRUE, job_id |-> job_id,
              status |-> jobs[job_id].status,
              scheduled |-> held # {},
              next_run_time |-> IF held # {}
                                THEN (CHOOSE t \in held : TRUE).run_date
                                ELSE NoTime]

\* The publishAt upload_video sends: the naive UTC isoformat and "Z".
PublishAtOf(publish_datetime) == [publish_datetime EXCEPT !.sfx = "Z"]

\* ------------------------------------------------------------ the world
\* The user whose requests are followed (get_current_user).
CurrentUsers == {"u1"}

\* The records jobs.json can hold for job id j (models/job.py).
JobRecords(j) ==
    {[job_id |-> j, user_id |-> u, channel_id |-> c, video_id |-> v,
      status |-> st, publish_datetime |-> t] :
        u \in Users, c \in ChannelSet, v \in {NoVideo, j},
        st \in JobStatus, t \in JobTimes}

\* The states a video can have on the platform, on channel c.
RemoteStates(c) ==
    {[exists |-> TRUE, privacy_status |-> "public", publish_at |-> NoTime,
      channel |-> c]}
    \cup {[exists |-> TRUE, privacy_status |-> p, publish_at |-> t,
           channel |-> c] :
            p \in {"private", "unlisted"}, t \in RemoteTimes \cup {NoTime}}

AllRemoteStates == {NoRemote} \cup UNION {RemoteStates(c) : c \in ChannelSet}

TypeOK ==
    /\ DOMAIN jobs \subseteq JobIds \cup RaceJobIds
    /\ \A j \in DOMAIN jobs :
          /\ [jobs[j] EXCEPT !.video_id = NoVideo] \in JobRecords(j)
          /\ jobs[j].video_id \in {NoVideo} \cup VideoIds
    /\ \A v \in VideoIds :
          \/ remote[v] \in AllRemoteStates
          \/ /\ remote[v].publish_at \in RescheduleTimes
             /\ [remote[v] EXCEPT !.publish_at = NoTime] \in AllRemoteStates
    /\ now \in 0..MaxNow
    /\ \A t \in timers :
          t.job_id \in JobIds \cup RaceJobIds /\ t.run_date \in JobTimes
    /\ \A j \in DOMAIN errors : errors[j] \in ErrorTexts \cup {NoError}
    /\ \A w \in inflight : w.phase \in {"read", "done"}
    /\ \A i \in 1..Len(failed_videos) :
          failed_videos[i].failure_time \in
              {now_isoformat(t) : t \in 0..MaxNow}

\* Job 1 is a job with a history: a record of the followed user in any
\* state of its life.  It has its video id once the upload succeeded and is
\* pending or failed before.
HistoryRecords(j) ==
    {r \in JobRecords(j) :
        /\ r.user_id \in CurrentUsers
        /\ r.channel_id = Channels[1]
        /\ IF r.video_id = NoVideo THEN r.status \in {"pending", "failed"}
           ELSE r.status # "pending"}

\* The jobs after it are as schedule_videos stored them, of any user, on
\* the other channel.
FreshRecords(j) ==
    {r \in JobRecords(j) :
        /\ r.channel_id = Channels[Len(Channels)]
        /\ r.video_id = j
        /\ r.status = "scheduled"
        /\ r.publish_datetime = IsoUtc(MaxSec, 0)}

StoredRecords(j) == IF j = 1 THEN HistoryRecords(j) ELSE FreshRecords(j)

\* Video j is the upload of job j, on the job's channel; the videos above
\* MaxJobs were scheduled by hand, on the last channel.
RemoteOf(store, v) ==
    IF v \in DOMAIN store /\ store[v].video_id = v
    THEN IF v = 1
         THEN {NoRemote} \cup RemoteStates(store[v].channel_id)
         ELSE {[exists |-> TRUE, privacy_status |-> "private",
                publish_at |-> IsoZ(MaxSec),
                channel |-> store[v].channel_id]}
    ELSE IF v \in JobIds THEN {NoRemote}
    ELSE {NoRemote} \cup
         {r \in RemoteStates(Channels[Len(Channels)]) :
             r.privacy_status = "private" /\ r.publish_at # NoTime}

\* The stores over the job ids S, one stored record per id.
RECURSIVE Stores(_)
Stores(S) ==
    IF S = {} THEN {<<>>}
    ELSE LET j == CHOOSE x \in S : \A y \in S : y <= x
         IN  {[k \in S |-> IF k = j THEN r ELSE f[k]] :
                 f \in Stores(S \ {j}), r \in StoredRecords(j)}

\* The platform states of the videos 1..n next to the store.
RECURSIVE Remotes(_, _)
Remotes(store, n) ==
    IF n = 0 THEN {<<>>}
    ELSE {Append(f, r) : f \in Remotes(store, n - 1), r \in RemoteOf(store, n)}

Init ==
    /\ \E S \in SUBSET JobIds : jobs \in Stores(S)
    /\ remote \in Remotes(jobs, MaxJobs + MaxExtra)
    /\ now = 0
    /\ resp = Idle
    /\ timers = {}
    /\ errors = [j \in JobIds |->
                   IF j \in DOMAIN jobs /\ jobs[j].status = "failed"
                   THEN CHOOSE e \in ErrorTexts : TRUE ELSE NoError]
    /\ failed_videos = <<>>
    /\ inflight = {}

\* The world right after schedule requests: every job as schedule_videos
\* stored it, its video private with the publishAt of the upload, and the
\* videos scheduled by hand.
InitScheduled ==
    /\ \E S \in SUBSET JobIds :
          jobs \in {f \in [S -> UNION {FreshRecords(j) : j \in S}] :
                       \A j \in S : f[j].job_id = j}
    /\ remote \in
          {f \in [VideoIds -> AllRemoteStates] :
              \A v \in VideoIds :
                  f[v] \in IF v \in DOMAIN jobs
                           THEN {[exists |-> TRUE,
                                  privacy_status |-> "private",
                                  publish_at |-> IsoZ(MaxSec),
                                  channel |-> jobs[v].channel_id]}
                           ELSE RemoteOf(jobs, v)}
    /\ now = 0
    /\ resp = Idle
    /\ timers = {}
    /\ errors = [j \in JobIds |-> NoError]
    /\ failed_videos = <<>>
    /\ inflight = {}

\* ------------------------------------------------------------- actions
\* GET /api/videos/jobs
GetJobs ==
    /\ resp.op = "idle"
    /\ \E u \in CurrentUsers, channel_id \in {""} \cup ChannelSet :
        \E connected \in IF channel_id # "" THEN {<<>>} ELSE ChannelLists :
          LET checked == IF channel_id # "" THEN {channel_id}
                         ELSE Range(connected)
              fetched == {j \in DOMAIN jobs : /\ jobs[j].user_id = u
                                              /\ jobs[j].video_id # NoVideo}
          IN  \E listFail \in SUBSET checked, statusFail \in SUBSET fetched :
                 resp' = get_jobs(u, channel_id, connected, listFail,
                                  statusFail)
    /\ UNCHANGED <<jobs, remote, now, backstop>>

\* A sync request of user u: the store is written and the response kept
\* with the store as it was before the call and with what the call before
\* it answered, when that was a sync too.
SyncRequest(u) ==
    LET fetched == {j \in DOMAIN jobs : /\ jobs[j].user_id = u
                                        /\ jobs[j].video_id # NoVideo}
    IN  /\ \E statusFail \in SUBSET fetched :
              LET r == sync_jobs_with_youtube(u, statusFail)
              IN  /\ jobs' = r.store
                  /\ resp' = r.response @@
                              [before |-> jobs,
                               again |-> resp.op = "sync",
                               prior |-> IF resp.op = "sync"
                                         THEN resp.synced ELSE 0,
                               prior_raised |->
                                   /\ resp.op = "sync"
                                   /\ \E j \in JobIds :
                                         resp.fetch[j] = "error"]
        /\ UNCHANGED <<remote, now, backstop>>

\* POST /api/videos/jobs/sync
Sync ==
    /\ resp.op = "idle"
    /\ \E u \in CurrentUsers : SyncRequest(u)

\* POST /api/videos/jobs/sync, called again right after a sync.
SyncAgain ==
    /\ resp.op = "sync"
    /\ \E u \in CurrentUsers : SyncRequest(u)

\* Time passes.
Tick ==
    /\ now < MaxNow
    /\ now' = now + 1
    /\ resp' = Idle
    /\ UNCHANGED <<jobs, remote, backstop>>

\* The platform publishes a scheduled video whose publishAt has come.
RemotePublish ==
    /\ \E v \in VideoIds :
          /\ remote[v].exists
          /\ remote[v].privacy_status = "private"
          /\ remote[v].publish_at # NoTime
          /\ fromisoformat(remote[v].publish_at) <= now
          /\ remote' = [remote EXCEPT ![v].privacy_status = "public",
                                      ![v].publish_at = NoTime]
    /\ resp' = Idle
    /\ UNCHANGED <<jobs, now, backstop>>

\* The response reaches the client.
Return ==
    /\ resp.op # "idle"
    /\ resp' = Idle
    /\ UNCHANGED <<jobs, remote, now, backstop>>

Next == GetJobs \/ Return \/ Tick \/ RemotePublish

Spec == Init /\ [][Next]_vars

\* ----------------------------------------------- scheduling and backstop
\* Nothing stored, nothing uploaded, no timer: a first start.
InitEmpty ==
    /\ jobs = <<>>
    /\ remote = [v \in VideoIds |-> NoRemote]
    /\ now = 0
    /\ resp = Idle
    /\ timers = {}
    /\ errors = [j \in JobIds |-> NoError]
    /\ failed_videos = <<>>
    /\ inflight = {}

\* POST /api/videos/schedule with one video that goes through: the upload
\* as private with publishAt, the job record, the timer.  The target is a
\* whole second ahead of now (upload_video raises otherwise), the job id is
\* new and the platform gives the video the id of the same number.
ScheduleVideos ==
    /\ resp.op = "idle"
    /\ \E u \in CurrentUsers, job_id \in JobIds \ DOMAIN jobs,
          publish_datetime \in {t \in JobTimes : t.frac = 0} :
          LET channel_id == Channels[1]
              video_id   == job_id
              job_data   == [job_id |-> job_id, user_id |-> u,
                             channel_id |-> channel_id,
                             video_id |-> video_id, status |-> "scheduled",
                             publish_datetime |-> publish_datetime]
          IN  /\ fromisoformat(publish_datetime) > now
              /\ ~remote[video_id].exists
              /\ remote' = [remote EXCEPT ![video_id] =
                               [exists |-> TRUE,
                                privacy_status |-> "private",
                                publish_at |-> PublishAtOf(publish_datetime),
                                channel |-> channel_id]]
              /\ jobs' = [j \in DOMAIN jobs \cup {job_id} |->
                             IF j = job_id THEN job_data ELSE jobs[j]]
              /\ errors' = [errors EXCEPT ![job_id] = NoError]
              /\ timers' = schedule_publish(timers, u, channel_id, video_id,
                                            publish_datetime, job_id)
              /\ resp' = [op |-> "schedule", job_id |-> job_id]
    /\ UNCHANGED <<now, logs>>

\* The timer of job j runs publish_video and is gone from the scheduler.
Fire(j) ==
    \E timer \in timers :
        /\ timer.job_id = j
        /\ Due(timer, now)
        /\ \E raised \in BOOLEAN, text \in ErrorTexts :
              LET r == publish_video(timer, raised, text)
              IN  /\ raised \/ remote[timer.video_id].exists
                  /\ jobs' = r.store
                  /\ errors' = r.errs
                  /\ remote' = r.rem
                  /\ timers' = timers \ {timer}
                  /\ resp' = [op |-> "fire", job_id |-> j,
                              raised |-> raised,
                              text |-> IF raised THEN text ELSE NoError,
                              attempts |-> r.attempts,
                              run_date |-> timer.run_date, at |-> now]
        /\ UNCHANGED <<now, logs>>

\* The process starts again: JobManager() with an empty scheduler.
Restart ==
    /\ timers # {}
    /\ timers' = {}
    /\ resp' = [op |-> "restart"]
    /\ UNCHANGED <<jobs, remote, now, errors, logs>>

\* A variant of job_view that asks the platform before it looks at the
\* owner of the job.
job_view_fetch_first(u, job_id) ==
    LET fetch == IF job_id \in DOMAIN jobs
                    /\ jobs[job_id].video_id # NoVideo
                    /\ jobs[job_id].channel_id # ""
                 THEN "made" ELSE "skipped"
    IN  [code |-> IF job_id \notin DOMAIN jobs THEN 404
                  ELSE IF jobs[job_id].user_id # u THEN 403
                  ELSE 200,
         fetch |-> fetch,
         resolved |-> "",
         body |-> get_job_status(job_id)]

\* job['status'] of the handler's own copy of the job after the fetch: the
\* status resolved from the platform when the video is found there, else
\* the stored one.
ViewResolved(job) ==
    IF job.video_id # NoVideo /\ job.channel_id # ""
       /\ remote[job.video_id].exists
    THEN NewStatus(remote[job.video_id], now)
    ELSE job.status

\* A variant of job_view that answers with the handler's own copy of the
\* job.
job_view_own_copy(u, job_id) ==
    IF job_id \notin DOMAIN jobs
    THEN [code |-> 404, fetch |-> "skipped", resolved |-> "",
          body |-> [found |-> FALSE]]
    ELSE IF jobs[job_id].user_id # u
    THEN [code |-> 403, fetch |-> "skipped", resolved |-> "",
          body |-> [found |-> FALSE]]
    ELSE [code |-> 200,
          fetch |-> IF jobs[job_id].video_id # NoVideo
                       /\ jobs[job_id].channel_id # ""
                    THEN "made" ELSE "skipped",
          resolved |-> ViewResolved(jobs[job_id]),
          body |-> [get_job_status(job_id) EXCEPT
                       !.status = ViewResolved(jobs[job_id])]]

\* The handler get_job_status: the status code, whether the status of the
\* job's video was fetched from the platform, the status the handler
\* resolves on its own copy of the job, and the body.  What the fetch
\* gives is written to the handler's own copy of the job only; the body is
\* what JobManager.get_job_status reads from the store.
job_view(u, job_id) ==
    IF job_id \notin DOMAIN jobs
    THEN [code |-> 404, fetch |-> "skipped", resolved |-> "",
          body |-> [found |-> FALSE]]
    ELSE IF jobs[job_id].user_id # u
    THEN [code |-> 403, fetch |-> "skipped", resolved |-> "",
          body |-> [found |-> FALSE]]
    ELSE [code |-> 200,
          fetch |-> IF jobs[job_id].video_id # NoVideo
                       /\ jobs[job_id].channel_id # ""
                    THEN "made" ELSE "skipped",
          resolved |-> ViewResolved(jobs[job_id]),
          body |-> get_job_status(job_id)]

\* GET /api/videos/jobs/{job_id}: 404 for an id the store does not hold,
\* 403 for a job of another user, else what JobManager.get_job_status
\* reads.
GetJobStatus ==
    /\ resp.op = "idle"
    /\ \E u \in CurrentUsers, job_id \in JobIds :
          resp' = [op |-> "job_status", user |-> u, asked |-> job_id]
                  @@ job_view(u, job_id)
    /\ UNCHANGED <<jobs, remote, now, backstop>>

\* The owner of a video moves its publishAt on the platform.
RemoteReschedule ==
    /\ \E v \in VideoIds, t \in RescheduleTimes :
          /\ remote[v].exists
          /\ remote[v].privacy_status = "private"
          /\ remote[v].publish_at # t
          /\ fromisoformat(t) > now
          /\ remote' = [remote EXCEPT ![v].publish_at = t]
    /\ resp' = Idle
    /\ UNCHANGED <<jobs, now, backstop>>

\* schedule_publish called again for a stored job, with any target.
Rearm ==
    /\ \E j \in DOMAIN jobs, publish_datetime \in JobTimes :
          /\ timers' = schedule_publish(timers, jobs[j].user_id,
                                        jobs[j].channel_id, jobs[j].video_id,
                                        publish_datetime, j)
          /\ timers' # timers
          /\ resp' = [op |-> "arm", job_id |-> j,
                      run_date |-> publish_datetime,
                      replaced |-> {t \in timers : t.job_id = j}]
    /\ UNCHANGED <<jobs, remote, now, errors, logs>>

\* ------------------------------------------------- the schedule request
\* The channels the followed user holds a token for (get_token).
TokenChannels == {Channels[1]}

\* The publish_datetime strings of a request: whole seconds ending in "Z",
\* and a naive one.
RequestTimes ==
    {IsoZ(MaxSec), [sec |-> MaxSec, frac |-> 0, sfx |-> "none"]}

\* A video of the payload: whether VideoSchedule(**video_data) accepts it,
\* its publish_datetime and the step of its processing that raises.
RequestVideos ==
    {[valid |-> FALSE, publish_datetime |-> NoTime, raises |-> "none"]}
    \cup {[valid |-> TRUE, publish_datetime |-> IsoZ(MaxSec), raises |-> x] :
             x \in {"none", "download", "upload"}}
    \cup {[valid |-> TRUE, publish_datetime |-> t, raises |-> "none"] :
             t \in RequestTimes}

\* The payloads json.loads can return: by the shape of the document and the
\* videos of its "videos" array.
RequestData ==
    {[shape |-> x, videos |-> <<>>] :
        x \in {"not_object", "no_videos", "not_list", "list"}}
    \cup {[shape |-> "list", videos |-> vs] :
             vs \in UNION {[1..n -> RequestVideos] : n \in 1..MaxVideos}}

\* JSONValidator.validate_request: is_valid and valid_videos.
validate_request(data) ==
    IF data.shape # "list" \/ data.videos = <<>>
    THEN [is_valid |-> FALSE, valid_videos |-> <<>>]
    ELSE LET valid_videos == SelectSeq(data.videos, LAMBDA v : v.valid)
         IN  [is_valid |-> Len(valid_videos) > 0,
              valid_videos |-> valid_videos]

\* publish_datetime as schedule_videos parses it: "Z" and a naive time are
\* taken as UTC, and isoformat() of the aware datetime ends in "+00:00".
to_utc(ts) == IsoUtc(ts.sec, ts.frac)

RECURSIVE InsertByFailure(_, _)
\* Where sorted(key=failure_time, reverse=True) puts e in a sorted s: behind
\* every record whose failure_time is >= its own (the sort is stable and e
\* was appended last).
InsertByFailure(e, s) ==
    IF s = <<>> THEN <<e>>
    ELSE IF StrLeq(e.failure_time, Head(s).failure_time)
    THEN <<Head(s)>> \o InsertByFailure(e, Tail(s))
    ELSE <<e>> \o s

RECURSIVE SortByFailure(_)
SortByFailure(s) ==
    IF s = <<>> THEN <<>>
    ELSE InsertByFailure(s[Len(s)], SortByFailure(SubSeq(s, 1, Len(s) - 1)))

\* A variant of save_failed_video that appends and keeps the first
\* max_entries records, without sorting.
save_failed_video_unsorted(log, failed_video, max_entries) ==
    SubSeq(Append(log, failed_video), 1,
           IF Len(log) + 1 < max_entries THEN Len(log) + 1 ELSE max_entries)

\* StorageManager.save_failed_video on the list of one channel: append,
\* sort most recent first, keep max_entries.
save_failed_video(log, failed_video, max_entries) ==
    LET sorted == SortByFailure(Append(log, failed_video))
    IN  SubSeq(sorted, 1,
               IF Len(sorted) < max_entries THEN Len(sorted) ELSE max_entries)

\* The except branch of schedule_videos for one video: the failure record.
\* Its job_id is the uuid of the video that failed, which no job has (0).
\* What the write takes out of the list is kept aside.
FailVideo(st, reason) ==
    LET failed_video == [failure_time |-> now_isoformat(now),
                         failure_reason |-> reason,
                         job_id |-> 0]
        kept == save_failed_video(st.log, failed_video, MaxEntries)
        all  == save_failed_video(st.log, failed_video, Len(st.log) + 1)
    IN  [st EXCEPT !.log = kept,
                   !.failed = @ + 1,
                   !.dropped = @ \o SubSeq(all, Len(kept) + 1, Len(all))]

\* A variant of StoreVideo that stores the job and arms no timer.
StoreVideoUnarmed(st, u, channel_id, publish_datetime) ==
    LET job_id   == CHOOSE j \in JobIds \ DOMAIN st.store :
                        \A k \in JobIds \ DOMAIN st.store : j <= k
        job_data == [job_id |-> job_id, user_id |-> u,
                     channel_id |-> channel_id, video_id |-> job_id,
                     status |-> "scheduled",
                     publish_datetime |-> publish_datetime]
    IN  [st EXCEPT
           !.rem = [@ EXCEPT ![job_id] =
                       [exists |-> TRUE, privacy_status |-> "private",
                        publish_at |-> PublishAtOf(publish_datetime),
                        channel |-> channel_id]],
           !.store = [j \in DOMAIN st.store \cup {job_id} |->
                         IF j = job_id THEN job_data ELSE st.store[j]],
           !.errs = [@ EXCEPT ![job_id] = NoError],
           !.success = Append(@, job_id)]

\* The try branch of schedule_videos for one video that goes through: the
\* upload as private with publishAt, save_job, schedule_publish.  The job
\* id is a new one (uuid4) and the platform gives the video the id of the
\* same number.
StoreVideo(st, u, channel_id, publish_datetime) ==
    LET job_id   == CHOOSE j \in JobIds \ DOMAIN st.store :
                        \A k \in JobIds \ DOMAIN st.store : j <= k
        job_data == [job_id |-> job_id, user_id |-> u,
                     channel_id |-> channel_id, video_id |-> job_id,
                     status |-> "scheduled",
                     publish_datetime |-> publish_datetime]
    IN  [st EXCEPT
           !.rem = [@ EXCEPT ![job_id] =
                       [exists |-> TRUE, privacy_status |-> "private",
                        publish_at |-> PublishAtOf(publish_datetime),
                        channel |-> channel_id]],
           !.store = [j \in DOMAIN st.store \cup {job_id} |->
                         IF j = job_id THEN job_data ELSE st.store[j]],
           !.errs = [@ EXCEPT ![job_id] = NoError],
           !.tm = schedule_publish(@, u, channel_id, job_id,
                                   publish_datetime, job_id),
           !.success = Append(@, job_id)]

\* One turn of the loop of schedule_videos.
ProcessVideo(st, u, channel_id, video) ==
    LET publish_datetime == to_utc(video.publish_datetime)
        downloaded == [st EXCEPT !.downloads = @ + 1]
        uploading  == [downloaded EXCEPT !.uploads = @ + 1]
    IN  IF video.raises = "download"
        THEN FailVideo(downloaded, "Invalid Google Drive URL")
        ELSE IF fromisoformat(publish_datetime) <= now
        THEN FailVideo(uploading, "Publish datetime must be in the future")
        ELSE IF video.raises = "upload"
        THEN FailVideo(uploading, "Upload error")
        ELSE IF JobIds \ DOMAIN st.store = {}
        THEN [uploading EXCEPT !.overflow = TRUE]
        ELSE StoreVideo(uploading, u, channel_id, publish_datetime)

\* A variant of ProcessVideos that gives up the request's remaining videos
\* at the first one that fails.
RECURSIVE ProcessVideosUntilFailure(_, _, _, _)
ProcessVideosUntilFailure(st, u, channel_id, videos) ==
    IF videos = <<>> THEN st
    ELSE LET after == ProcessVideo(st, u, channel_id, Head(videos))
         IN  IF after.failed > st.failed THEN after
             ELSE ProcessVideosUntilFailure(after, u, channel_id,
                                            Tail(videos))

\* The loop of schedule_videos over the valid videos, in their order.
RECURSIVE ProcessVideos(_, _, _, _)
ProcessVideos(st, u, channel_id, videos) ==
    IF videos = <<>> THEN st
    ELSE ProcessVideos(ProcessVideo(st, u, channel_id, Head(videos)),
                       u, channel_id, Tail(videos))

\* A variant of schedule_videos that starts on the videos before it looks
\* for the token of the channel.
schedule_videos_token_unchecked(u, channel_id, filename_ok, json_ok, data) ==
    LET st0 == [store |-> jobs, rem |-> remote, tm |-> timers,
                errs |-> errors, log |-> failed_videos, success |-> <<>>,
                failed |-> 0, downloads |-> 0, uploads |-> 0,
                dropped |-> <<>>, overflow |-> FALSE]
        v   == validate_request(data)
    IN  IF ~filename_ok THEN st0 @@ [code |-> 400]
        ELSE IF ~json_ok THEN st0 @@ [code |-> 400]
        ELSE IF ~v.is_valid THEN st0 @@ [code |-> 500]
        ELSE LET st == ProcessVideos(st0, u, channel_id, v.valid_videos)
             IN  IF channel_id \notin TokenChannels
                 THEN st @@ [code |-> 404]
                 ELSE st @@ [code |-> 200]

\* schedule_videos: the state after the request and the status code.  The
\* rejection of a payload without a valid video passes errors= to
\* HTTPException, which takes no such argument: the TypeError is a 500.
schedule_videos(u, channel_id, filename_ok, json_ok, data) ==
    LET st0 == [store |-> jobs, rem |-> remote, tm |-> timers,
                errs |-> errors, log |-> failed_videos, success |-> <<>>,
                failed |-> 0, downloads |-> 0, uploads |-> 0,
                dropped |-> <<>>, overflow |-> FALSE]
        v   == validate_request(data)
    IN  IF ~filename_ok THEN st0 @@ [code |-> 400]
        ELSE IF ~json_ok THEN st0 @@ [code |-> 400]
        ELSE IF ~v.is_valid THEN st0 @@ [code |-> 500]
        ELSE IF channel_id \notin TokenChannels THEN st0 @@ [code |-> 404]
        ELSE ProcessVideos(st0, u, channel_id, v.valid_videos)
             @@ [code |-> 200]

\* The request as an action: the state is written and the response kept.
ScheduleCall(u, channel_id, filename_ok, json_ok, data) ==
    \E r \in {schedule_videos(u, channel_id, filename_ok, json_ok, data)} :
        /\ ~r.overflow
        /\ jobs' = r.store
        /\ remote' = r.rem
        /\ timers' = r.tm
        /\ errors' = r.errs
        /\ failed_videos' = r.log
        /\ resp' = [op |-> "schedule_request", code |-> r.code,
                    success |-> r.success, failed_count |-> r.failed,
                    total |-> IF r.code = 200
                              THEN Len(validate_request(data).valid_videos)
                              ELSE 0,
                    downloads |-> r.downloads, uploads |-> r.uploads,
                    dropped |-> r.dropped]
        /\ UNCHANGED <<now, inflight>>

\* POST /api/videos/schedule, while the log holds no more than MaxFailed
\* records afterwards.
ScheduleRequest ==
    /\ resp.op = "idle"
    /\ \E u \in CurrentUsers, channel_id \in ChannelSet,
          filename_ok \in BOOLEAN, json_ok \in BOOLEAN, data \in RequestData :
          /\ filename_ok \/ (json_ok /\ data.shape = "list"
                                     /\ data.videos = <<>>)
          /\ json_ok \/ (data.shape = "list" /\ data.videos = <<>>)
          /\ ScheduleCall(u, channel_id, filename_ok, json_ok, data)
    /\ Len(failed_videos') <= MaxFailed

\* POST /api/videos/schedule with one video whose download raises.
FailedAttempt ==
    /\ resp.op = "idle"
    /\ \E u \in CurrentUsers, channel_id \in TokenChannels :
          ScheduleCall(u, channel_id, TRUE, TRUE,
                       [shape |-> "list",
                        videos |-> <<[valid |-> TRUE,
                                      publish_datetime |->
                                          [sec |-> 1, frac |-> 0,
                                           sfx |-> "Z"],
                                      raises |-> "download"]>>])

\* The schedule endpoint next to the clock.
NextSchedule == ScheduleRequest \/ Return \/ Tick

SpecSchedule == InitEmpty /\ [][NextSchedule]_vars

\* A first start late on the clock.
InitLate ==
    /\ jobs = <<>>
    /\ remote = [v \in VideoIds |-> NoRemote]
    /\ now = MaxNow - 2
    /\ resp = Idle
    /\ timers = {}
    /\ errors = [j \in JobIds |-> NoError]
    /\ failed_videos = <<>>
    /\ inflight = {}

\* The failure log under failed attempts.
NextFailures == FailedAttempt \/ Return \/ Tick

SpecFailures == InitLate /\ [][NextFailures]_vars

\* ------------------------------------------------ refresh_failed_videos
\* job['created_at']: the jobs of the store were created one after the
\* other, job j at the j-th instant of the clock.
created_at(j) == now_isoformat(j - 1)

\* failed_jobs of refresh_failed_videos: the user's jobs on the channel
\* that are failed and carry an error message, in the order of the store.
failed_jobs(store, errs, u, channel_id) ==
    SelectSeq(user_jobs_in(store, u),
              LAMBDA j : /\ store[j].channel_id = channel_id
                         /\ store[j].status = "failed"
                         /\ errs[j] # NoError)

\* The record refresh_failed_videos builds from a failed job.
FailedRecord(j, errs) ==
    [failure_time |-> created_at(j), failure_reason |-> errs[j],
     job_id |-> j]

RECURSIVE SaveAll(_, _)
\* for failed_video in failed_videos: save_failed_video(..., max_entries=20)
SaveAll(log, records) ==
    IF records = <<>> THEN log
    ELSE SaveAll(save_failed_video(log, Head(records), MaxEntries),
                 Tail(records))

\* refresh_failed_videos for user u: 400 without a channel, 404 without a
\* token, else the failed jobs as failure records, most recent first, the
\* first 20 of them, each handed to save_failed_video.
refresh_failed_videos(u, channel_id) ==
    IF channel_id = "" THEN [code |-> 400, videos |-> <<>>,
                             log |-> failed_videos]
    ELSE IF channel_id \notin TokenChannels
    THEN [code |-> 404, videos |-> <<>>, log |-> failed_videos]
    ELSE LET js      == failed_jobs(jobs, errors, u, channel_id)
             records == [i \in 1..Len(js) |-> FailedRecord(js[i], errors)]
             sorted  == SortByFailure(records)
             kept    == SubSeq(sorted, 1, IF Len(sorted) < MaxEntries
                                          THEN Len(sorted) ELSE MaxEntries)
         IN  [code |-> 200, videos |-> kept,
              log |-> SaveAll(failed_videos, kept)]

\* POST /api/videos/failed/refresh, a first time or again right after its
\* answer, while the log holds no more than MaxFailed + 1 records
\* afterwards.
Refresh ==
    /\ resp.op \in {"idle", "refresh"}
    /\ \E u \in CurrentUsers, channel_id \in {""} \cup ChannelSet :
        \E r \in {refresh_failed_videos(u, channel_id)} :
          /\ Len(r.log) <= MaxFailed + 1
          /\ failed_videos' = r.log
          /\ resp' = [op |-> "refresh", user |-> u,
                      channel_id |-> channel_id, code |-> r.code,
                      videos |-> r.videos]
    /\ UNCHANGED <<jobs, remote, now, timers, errors, inflight>>

\* The jobs the store can hold when the log is refreshed: scheduled, or
\* failed by their timer with or without a text.
RefreshRecords(j) ==
    {r \in JobRecords(j) :
        /\ r.video_id = j
        /\ r.status \in {"scheduled", "failed"}
        /\ r.publish_datetime = IsoUtc(MaxSec, 0)}

\* A store of jobs created before, some of them failed, and an empty log.
InitFailedJobs ==
    /\ \E S \in SUBSET JobIds : jobs \in [S -> UNION {RefreshRecords(j) : j \in S}]
    /\ \A j \in DOMAIN jobs : jobs[j].job_id = j
    /\ remote = [v \in VideoIds |-> NoRemote]
    /\ now = MaxNow - 2
    /\ resp = Idle
    /\ timers = {}
    /\ errors \in [JobIds -> ErrorTexts \cup {NoError}]
    /\ \A j \in JobIds :
          (j \notin DOMAIN jobs \/ jobs[j].status # "failed")
              => errors[j] = NoError
    /\ failed_videos = <<>>
    /\ inflight = {}

NextRefresh == Refresh \/ Return \/ Tick

SpecRefresh == InitFailedJobs /\ [][NextRefresh]_vars

\* ------------------------------------------------- the Job Store alone
\* A job id no store holds.
AbsentId == MaxJobs + 1

\* The job_data schedule_videos hands to save_job for id j.
SavedRecords(j) ==
    {r \in JobRecords(j) :
        /\ r.video_id = j
        /\ r.status = "scheduled"
        /\ r.publish_datetime.frac = 0}

\* StorageManager.save_job on the store: jobs[job_id] = job_data.
save_job(store, job_id, job_data) ==
    [j \in DOMAIN store \cup {job_id} |->
        IF j = job_id THEN job_data ELSE store[j]]

\* The job_data of the followed user on the channel that has a token.
OwnSavedRecords(j) ==
    {r \in SavedRecords(j) :
        r.user_id \in CurrentUsers /\ r.channel_id \in TokenChannels}

\* storage_manager.save_job(job_id, job_data), called with any id; the
\* record carries error_message None.
SaveJob ==
    /\ resp.op = "idle"
    /\ \E job_id \in JobIds :
        \E job_data \in OwnSavedRecords(job_id) :
          /\ jobs' = save_job(jobs, job_id, job_data)
          /\ errors' = [errors EXCEPT ![job_id] = NoError]
          /\ resp' = [op |-> "save_job", job_id |-> job_id,
                      existed |-> job_id \in DOMAIN jobs, raised |-> FALSE]
    /\ UNCHANGED <<remote, now, timers, logs>>

\* A video id no job was saved with.
OtherVideo == MaxJobs + 1

\* storage_manager.update_job_status(job_id, status, error_message,
\* video_id), called with any id; the response keeps the arguments of the
\* call.
UpdateStatus ==
    /\ resp.op = "idle"
    /\ \E job_id \in JobIds \cup {AbsentId}, status \in JobStatus,
          error_message \in ErrorTexts \cup {NoError} :
        \E video_id \in {NoVideo, job_id, OtherVideo} :
          /\ jobs' = update_job_status(jobs, job_id, status, video_id)
          /\ errors' = update_error_message(jobs, errors, job_id,
                                            error_message)
          /\ resp' = [op |-> "update_status", job_id |-> job_id,
                      existed |-> job_id \in DOMAIN jobs, raised |-> FALSE,
                      status |-> status, error_message |-> error_message,
                      video_id |-> video_id]
    /\ UNCHANGED <<remote, now, timers, logs>>

\* The view of one job, over stores that hold the jobs of several users.
NextView ==
    GetJobStatus \/ Return \/ Tick \/ RemotePublish \/ RemoteReschedule

SpecView == InitScheduled /\ [][NextView]_vars

NextStore == SaveJob \/ UpdateStatus \/ Return

SpecStore == InitEmpty /\ [][NextStore]_vars

\* ------------------------------------------ two threads on jobs.json
\* A write of the store by a thread: save_job and update_job_status read
\* the whole file (_read_json), change their copy and write the whole file
\* back (_write_json).  The write is kept with the copy it read.
StoreWrite(actor, op, job_id, status, error_message, job_data) ==
    [actor |-> actor, op |-> op, job_id |-> job_id, status |-> status,
     error_message |-> error_message, job_data |-> job_data,
     read |-> [jobs |-> jobs, errors |-> errors], phase |-> "read"]

\* The job_data of a write that is not a save_job.
NoJob == [job_id |-> 0, user_id |-> "", channel_id |-> "",
          video_id |-> NoVideo, status |-> "", publish_datetime |-> NoTime]

\* What a write puts in jobs.json: its copy with its own change.
WrittenJobs(w) ==
    IF w.op = "save" THEN save_job(w.read.jobs, w.job_id, w.job_data)
    ELSE update_job_status(w.read.jobs, w.job_id, w.status,
                           IF w.job_id \in DOMAIN w.read.jobs
                           THEN w.read.jobs[w.job_id].video_id ELSE NoVideo)

WrittenErrors(w) ==
    IF w.op = "save" THEN [w.read.errors EXCEPT ![w.job_id] = NoError]
    ELSE update_error_message(w.read.jobs, w.read.errors, w.job_id,
                              w.error_message)

\* The writes once w has written the file: w is the one marked done.
Landed(w) ==
    {x \in inflight : x.phase = "read" /\ x # w}
    \cup {[w EXCEPT !.phase = "done"]}

\* The write the request thread has under way.
RequestReading ==
    {w \in inflight : w.actor = "request" /\ w.phase = "read"}

\* The write the thread of the timer of job j has under way.
TimerReading(j) ==
    {w \in inflight : w.actor = "timer" /\ w.job_id = j /\ w.phase = "read"}

\* A first start with job ids for two jobs.
InitRace ==
    /\ jobs = <<>>
    /\ remote = [v \in VideoIds |-> NoRemote]
    /\ now = 0
    /\ resp = Idle
    /\ timers = {}
    /\ errors = [j \in RaceJobIds |-> NoError]
    /\ failed_videos = <<>>
    /\ inflight = {}

\* schedule_videos up to the read of save_job: the upload went through.
CreateBegin ==
    /\ RequestReading = {}
    /\ RaceJobIds \ DOMAIN jobs # {}
    /\ \E u \in CurrentUsers,
          publish_datetime \in {t \in JobTimes : t.frac = 0} :
          LET job_id   == CHOOSE j \in RaceJobIds \ DOMAIN jobs :
                              \A k \in RaceJobIds \ DOMAIN jobs : j <= k
              job_data == [job_id |-> job_id, user_id |-> u,
                           channel_id |-> Channels[1], video_id |-> job_id,
                           status |-> "scheduled",
                           publish_datetime |-> publish_datetime]
          IN  /\ fromisoformat(publish_datetime) > now
              /\ \A w \in inflight : w.job_id # job_id
              /\ ~remote[job_id].exists
              /\ remote' = [remote EXCEPT ![job_id] =
                               [exists |-> TRUE,
                                privacy_status |-> "private",
                                publish_at |-> PublishAtOf(publish_datetime),
                                channel |-> Channels[1]]]
              /\ inflight' = inflight \cup
                     {StoreWrite("request", "save", job_id, "scheduled",
                                 NoError, job_data)}
    /\ resp' = Idle
    /\ UNCHANGED <<jobs, now, timers, errors, failed_videos>>

\* schedule_videos from the write of save_job on: the file is written and
\* the timer armed.
CreateEnd ==
    /\ \E w \in RequestReading :
          /\ w.op = "save"
          /\ jobs' = WrittenJobs(w)
          /\ errors' = WrittenErrors(w)
          /\ timers' = schedule_publish(timers, w.job_data.user_id,
                                        w.job_data.channel_id,
                                        w.job_data.video_id,
                                        w.job_data.publish_datetime, w.job_id)
          /\ inflight' = Landed(w)
    /\ resp' = Idle
    /\ UNCHANGED <<remote, now, failed_videos>>

\* sync_jobs_with_youtube for one job whose status differs, up to the read
\* of update_job_status.
SyncBegin ==
    /\ RequestReading = {}
    /\ \E u \in CurrentUsers, j \in DOMAIN jobs :
          LET new_status == NewStatus(remote[jobs[j].video_id], now)
          IN  /\ jobs[j].user_id = u
              /\ jobs[j].video_id # NoVideo
              /\ remote[jobs[j].video_id].exists
              /\ StatusDiffers(jobs[j], new_status)
              /\ inflight' = inflight
                     \cup {StoreWrite("request", "update", j, new_status,
                                      NoError, NoJob)}
    /\ resp' = Idle
    /\ UNCHANGED <<jobs, remote, now, timers, errors, failed_videos>>

\* The write of update_job_status in sync_jobs_with_youtube.
SyncEnd ==
    /\ \E w \in RequestReading :
          /\ w.op = "update"
          /\ jobs' = WrittenJobs(w)
          /\ errors' = WrittenErrors(w)
          /\ inflight' = Landed(w)
    /\ resp' = Idle
    /\ UNCHANGED <<remote, now, timers, failed_videos>>

\* The timer of job j runs publish_video up to the read of
\* update_job_status: update_video_privacy went through or raised.
FireBegin(j) ==
    /\ \E timer \in timers :
          /\ timer.job_id = j
          /\ Due(timer, now)
          /\ \E raised \in BOOLEAN :
                LET text == CHOOSE e \in ErrorTexts : TRUE
                IN  /\ raised \/ remote[timer.video_id].exists
                    /\ remote' = IF raised THEN remote
                                 ELSE update_video_privacy(remote,
                                                           timer.video_id)
                    /\ inflight' = inflight \cup
                           {StoreWrite("timer", "update", j,
                                       IF raised THEN "failed"
                                       ELSE "published",
                                       IF raised THEN text ELSE NoError,
                                       NoJob)}
          /\ timers' = timers \ {timer}
    /\ resp' = Idle
    /\ UNCHANGED <<jobs, now, errors, failed_videos>>

\* The write of update_job_status in publish_video.
FireEnd(j) ==
    /\ \E w \in TimerReading(j) :
          /\ jobs' = WrittenJobs(w)
          /\ errors' = WrittenErrors(w)
          /\ inflight' = Landed(w)
    /\ resp' = Idle
    /\ UNCHANGED <<remote, now, timers, failed_videos>>

NextRace ==
    \/ CreateBegin
    \/ CreateEnd
    \/ SyncBegin
    \/ SyncEnd
    \/ \E j \in RaceJobIds : FireBegin(j)
    \/ \E j \in RaceJobIds : FireEnd(j)
    \/ Tick

SpecRace == InitRace /\ [][NextRace]_vars

NextBackstop ==
    \/ ScheduleVideos
    \/ \E j \in JobIds : Fire(j)
    \/ Restart
    \/ Sync
    \/ GetJobs
    \/ GetJobStatus
    \/ Return
    \/ Tick
    \/ RemotePublish
    \/ RemoteReschedule

SpecBackstop == InitEmpty /\ [][NextBackstop]_vars

\* The scheduler runs the timers that are due, and the clock goes on.
SpecBackstopLive ==
    /\ SpecBackstop
    /\ WF_vars(Tick)
    /\ \A j \in JobIds : WF_vars(Fire(j))

\* The scheduler alone: what arms, replaces, runs and loses timers.
NextArm ==
    \/ ScheduleVideos
    \/ Rearm
    \/ \E j \in JobIds : Fire(j)
    \/ Restart
    \/ Return
    \/ Tick

SpecArm == InitEmpty /\ [][NextArm]_vars

\* The two aggregate requests side by side.
NextAggregate == GetJobs \/ Sync \/ Return \/ Tick \/ RemotePublish

SpecAggregate == InitScheduled /\ [][NextAggregate]_vars

\* The store under sync requests.
NextSync == Sync \/ SyncAgain \/ Return \/ Tick \/ RemotePublish

SpecSync == Init /\ [][NextSync]_vars

\* ------------------------------------------------------------- claims
\* What the claims read off a response of get_jobs.
Listed == resp.op = "get_jobs"

Mine(j) == j \in DOMAIN jobs /\ jobs[j].user_id = resp.user

EntriesOfJob(j) ==
    {i \in 1..Len(resp.jobs) :
        /\ ~resp.jobs[i].from_youtube
        /\ resp.jobs[i].job_id = [pfx |-> "", id |-> j]}

EntriesOfVideo(v) == {i \in 1..Len(resp.jobs) : resp.jobs[i].video_id = v}

Included(j) == EntriesOfJob(j) # {}

Fetched(j) ==
    /\ Mine(j)
    /\ jobs[j].video_id # NoVideo
    /\ resp.fetch[j] = "ok"

OwnTargetAhead(j) == fromisoformat(jobs[j].publish_datetime) > now

\* C1: a job of the user whose video the platform reports as public has no
\* entry in the list get_jobs returns, whatever its recorded status and
\* target instant.
C1_PublicExcluded ==
    Listed =>
        \A j \in JobIds :
            (Fetched(j) /\ remote[jobs[j].video_id].privacy_status = "public")
                => ~Included(j)

\* A public video of a job that its own record would still call scheduled.
C1_Witness ==
    /\ Listed
    /\ \E j \in JobIds :
          /\ Fetched(j)
          /\ remote[jobs[j].video_id].privacy_status = "public"
          /\ jobs[j].status = "scheduled"
          /\ OwnTargetAhead(j)
          /\ ~Included(j)

\* C2: no platform video id occurs in two entries of the returned list.
C2_OneEntryPerVideo ==
    Listed =>
        \A a, b \in 1..Len(resp.jobs) :
            (a < b /\ resp.jobs[a].video_id # NoVideo)
                => resp.jobs[a].video_id # resp.jobs[b].video_id

\* A listed job whose video is also in the fetched remote listing.
C2_Witness ==
    /\ Listed
    /\ \E j \in JobIds :
          /\ Mine(j)
          /\ Included(j)
          /\ jobs[j].video_id \in resp.listed

\* C3: a video id carried by a job of the user never appears as a
\* remote-only (from_youtube) entry, whether the job was listed or not.
C3_JobVideoNeverRemoteOnly ==
    Listed =>
        \A i \in 1..Len(resp.jobs) :
            resp.jobs[i].from_youtube =>
                ~\E j \in JobIds :
                    Mine(j) /\ jobs[j].video_id = resp.jobs[i].video_id

\* C4: a job whose video is private or unlisted with a publishAt is listed
\* as scheduled while the publishAt is ahead of the clock, and on a run at
\* or after the publishAt it is left out and resolved as published.
C4_ScheduledUntilDue ==
    Listed =>
        \A j \in JobIds :
            (/\ Fetched(j)
             /\ remote[jobs[j].video_id].privacy_status
                   \in {"private", "unlisted"}
             /\ remote[jobs[j].video_id].publish_at # NoTime)
            => IF fromisoformat(remote[jobs[j].video_id].publish_at) > now
               THEN /\ Included(j)
                    /\ \A i \in EntriesOfJob(j) :
                          resp.jobs[i].status = "scheduled"
                    /\ resp.status[j] = "scheduled"
               ELSE /\ ~Included(j)
                    /\ resp.status[j] = "published"

\* A run after the clock passed a publishAt that was ahead when the clock
\* started: the job is left out and resolved as published.
C4_Witness ==
    /\ Listed
    /\ \E j \in JobIds :
          /\ Fetched(j)
          /\ remote[jobs[j].video_id].privacy_status = "private"
          /\ remote[jobs[j].video_id].publish_at # NoTime
          /\ fromisoformat(remote[jobs[j].video_id].publish_at) > 0
          /\ fromisoformat(remote[jobs[j].video_id].publish_at) <= now
          /\ OwnTargetAhead(j)
          /\ ~Included(j)
          /\ resp.status[j] = "published"

\* C5: when the status fetch of a job raises, get_jobs still answers, and
\* lists the job exactly when its own target is ahead and its recorded
\* status is scheduled or uploaded.
C5_FetchErrorFallsBack ==
    Listed =>
        \A j \in JobIds :
            (Mine(j) /\ resp.fetch[j] = "error")
                => (Included(j) <=>
                       /\ OwnTargetAhead(j)
                       /\ jobs[j].status \in {"scheduled", "uploaded"})

\* A failed fetch of a job that is listed from its own record alone.
C5_Witness ==
    /\ Listed
    /\ \E j \in JobIds :
          /\ Mine(j)
          /\ resp.fetch[j] = "error"
          /\ jobs[j].status = "uploaded"
          /\ Included(j)
          /\ resp.status[j] = "scheduled"

\* C6: when the status fetch returns nothing, the job is listed if its own
\* target is ahead and its recorded status is scheduled or uploaded.
C6_AbsentFallsBack ==
    Listed =>
        \A j \in JobIds :
            (/\ Mine(j)
             /\ resp.fetch[j] = "none"
             /\ OwnTargetAhead(j)
             /\ jobs[j].status \in {"scheduled", "uploaded"})
                => Included(j)

C8_RemoteOnlyListed ==
    Listed =>
        \A v \in resp.listed :
            (~\E j \in JobIds : Mine(j) /\ jobs[j].video_id = v)
            => IF fromisoformat(remote[v].publish_at) > now
               THEN /\ Cardinality(EntriesOfVideo(v)) = 1
                    /\ \A i \in EntriesOfVideo(v) :
                          /\ resp.jobs[i].from_youtube
                          /\ resp.jobs[i].status = "scheduled"
               ELSE EntriesOfVideo(v) = {}

\* An unmatched listed video that is shown, at a clock one tick before its
\* publishAt.
C8_Witness ==
    /\ Listed
    /\ \E v \in resp.listed :
          /\ ~\E j \in JobIds : Mine(j) /\ jobs[j].video_id = v
          /\ fromisoformat(remote[v].publish_at) = now + 1
          /\ EntriesOfVideo(v) # {}

\* C9: the returned list is non-decreasing by publish instant.
C9_SortedByInstant ==
    Listed =>
        \A a, b \in 1..Len(resp.jobs) :
            a < b => fromisoformat(resp.jobs[a].publish_datetime)
                        <= fromisoformat(resp.jobs[b].publish_datetime)

\* C10: once get_jobs has answered, the store holds the status it resolved
\* for each job of the user.
C10_ResolvedStatusPersisted ==
    Listed =>
        \A j \in JobIds : Mine(j) => jobs[j].status = resp.status[j]

\* What the claims read off a response of sync_jobs_with_youtube.
Synced == resp.op = "sync"

\* The jobs of the caller whose persisted status the last call changed.
StatusChanged ==
    {j \in DOMAIN jobs : /\ jobs[j].user_id = resp.user
                         /\ jobs[j].status # resp.before[j].status}

C12_CountIsChangedJobs ==
    Synced => resp.synced = Cardinality(StatusChanged)

\* A sync that changed a job and counted it.
C12_Witness ==
    /\ Synced
    /\ resp.synced = 1
    /\ \E j \in StatusChanged :
          resp.before[j].status = "scheduled" /\ jobs[j].status = "published"

\* The store without job J.
Without(store, J) == [j \in DOMAIN store \ {J} |-> store[j]]

\* The entries of a response that are not about video v.
NotAbout(entries, v) == SelectSeq(entries, LAMBDA e : e.video_id # v)

\* The entries without the channel id stamped on those found only on the
\* platform.
Unstamped(entries) ==
    [i \in 1..Len(entries) |->
        IF entries[i].from_youtube
        THEN [entries[i] EXCEPT !.channel_id = ""] ELSE entries[i]]

\* The jobs of u whose status get_jobs and sync fetch.
FetchedJobs(u) ==
    {j \in DOMAIN jobs : jobs[j].user_id = u /\ jobs[j].video_id # NoVideo}

\* get_jobs when the status fetch of job J raises: the entries of the other
\* jobs and videos are those of the call on the store without J.
JobFailureInList ==
    \A u \in CurrentUsers, channel_id \in {""} \cup ChannelSet :
      \A connected \in IF channel_id # "" THEN {<<>>} ELSE ChannelLists :
        \A listFail \in SUBSET (IF channel_id # "" THEN {channel_id}
                                ELSE Range(connected)),
           statusFail \in SUBSET FetchedJobs(u) :
          \A J \in statusFail :
            NotAbout(get_jobs_in(jobs, u, channel_id, connected, listFail,
                                 statusFail).jobs, jobs[J].video_id)
            = NotAbout(get_jobs_in(Without(jobs, J), u, channel_id,
                                   connected, listFail,
                                   statusFail \ {J}).jobs,
                       jobs[J].video_id)

\* sync when the status fetch of job J raises: the other jobs are written
\* and counted as by the call on the store without J.
JobFailureInSync ==
    \A u \in CurrentUsers :
      \A statusFail \in SUBSET FetchedJobs(u) :
        \A J \in statusFail :
          LET with    == sync_in(jobs, u, statusFail)
              without == sync_in(Without(jobs, J), u, statusFail \ {J})
          IN  /\ Without(with.store, J) = without.store
              /\ with.store[J] = jobs[J]
              /\ with.response.synced = without.response.synced

\* get_jobs over all connected channels when the listing of channel c
\* raises, next to the call in which c is not connected; view is what is
\* compared of the entries.
ChannelFailureAs(view(_)) ==
    \A u \in CurrentUsers, connected \in ChannelLists :
      \A listFail \in SUBSET Range(connected),
         statusFail \in SUBSET FetchedJobs(u) :
        \A c \in listFail :
          view(get_jobs(u, "", connected, listFail, statusFail).jobs)
          = view(get_jobs(u, "", SelectSeq(connected, LAMBDA x : x # c),
                          listFail \ {c}, statusFail).jobs)

AsTheyAre(entries) == entries

C14_TerminalStays ==
    [][\A j \in DOMAIN jobs :
          jobs[j].status \in {"published", "failed"}
              => jobs'[j].status = jobs[j].status]_vars

\* The place of a status in pending < uploaded < scheduled < published;
\* failed stands aside.
Rank(st) ==
    CASE st = "pending"   -> 1
      [] st = "uploaded"  -> 2
      [] st = "scheduled" -> 3
      [] st = "published" -> 4
      [] OTHER            -> 0

\* C15: no step takes the persisted status of a job to an earlier place in
\* pending < uploaded < scheduled < published.
C15_NeverBackwards ==
    [][\A j \in DOMAIN jobs :
          (Rank(jobs[j].status) > 0 /\ Rank(jobs'[j].status) > 0)
              => Rank(jobs'[j].status) >= Rank(jobs[j].status)]_vars

\* C16: a job that a failed run of its timer left with an error message is
\* neither persisted nor listed as scheduled afterwards.
C16_FailedNotResurrected ==
    \A j \in DOMAIN jobs :
        errors[j] # NoError
            => /\ jobs[j].status # "scheduled"
               /\ (Listed /\ Mine(j)) => /\ resp.status[j] # "scheduled"
                                         /\ ~Included(j)

\* What the claims read off a run of a timer.
Fired(j) == resp.op = "fire" /\ resp.job_id = j

Held(j) == {t \in timers : t.job_id = j}

\* C17: a run of the timer of a job makes one privacy update; the job is
\* published when it went through, failed with the text of the error when
\* it raised, and no timer is left for the job.
C17_OneAttemptThenTerminal ==
    \A j \in JobIds :
        Fired(j) =>
            /\ resp.attempts = 1
            /\ j \in DOMAIN jobs
            /\ IF resp.raised
               THEN jobs[j].status = "failed" /\ errors[j] = resp.text
               ELSE jobs[j].status = "published"
            /\ Held(j) = {}

\* A run that raised, with its message in the store.
C17_Witness ==
    \E j \in JobIds :
        /\ Fired(j)
        /\ resp.raised
        /\ resp.text = "No token found"
        /\ jobs[j].status = "failed"
        /\ errors[j] = "No token found"

\* C18: the scheduler holds at most one timer per job id, and after an arm
\* call it is the one just armed.
C18_OneTimerPerJob ==
    /\ \A a, b \in timers : a.job_id = b.job_id => a = b
    /\ resp.op = "arm" =>
          \A t \in Held(resp.job_id) : t.run_date = resp.run_date

\* An arm call that took the place of a timer with another target.
C18_Witness ==
    /\ resp.op = "arm"
    /\ resp.replaced # {}
    /\ \A t \in resp.replaced : t \notin timers /\ t.run_date # resp.run_date
    /\ Held(resp.job_id) # {}

\* C19: the status of a job id says scheduled, with the run date, exactly
\* when the scheduler holds a timer for it; for an id the store does not
\* hold it is nothing.
C19_ArmedIffHeld ==
    resp.op = "job_status" =>
        IF resp.asked \notin DOMAIN jobs THEN ~resp.body.found
        ELSE /\ resp.body.found
             /\ resp.body.scheduled <=> Held(resp.asked) # {}
             /\ \A t \in Held(resp.asked) :
                   resp.body.next_run_time = t.run_date
             /\ Held(resp.asked) = {} => resp.body.next_run_time = NoTime

\* The status of a job that is stored as scheduled and whose timer a
\* restart took away.
C19_Witness ==
    /\ resp.op = "job_status"
    /\ resp.code = 200
    /\ resp.body.status = "scheduled"
    /\ ~resp.body.scheduled
    /\ fromisoformat(jobs[resp.asked].publish_datetime) > now

C21_StoredJobsAreArmed ==
    \A j \in DOMAIN jobs :
        jobs[j].status = "scheduled" =>
            \E t \in timers : /\ t.job_id = j
                              /\ t.run_date = jobs[j].publish_datetime

\* A request that stored a job has answered.
C21_Witness ==
    /\ resp.op = "schedule_request"
    /\ resp.code = 200
    /\ resp.success # <<>>
    /\ \A i \in 1..Len(resp.success) :
          /\ resp.success[i] \in DOMAIN jobs
          /\ jobs[resp.success[i]].status = "scheduled"

\* C22: a schedule request that is rejected changes neither the store, the
\* timers, the failure log nor the platform, and starts no download or
\* upload.
C22_RejectedChangesNothing ==
    [][(resp'.op = "schedule_request" /\ resp'.code # 200) =>
          /\ UNCHANGED <<jobs, timers, failed_videos, remote, errors>>
          /\ resp'.downloads = 0
          /\ resp'.uploads = 0]_vars

\* A request for a channel without a token was rejected while the store
\* and the log held something.
C22_Witness ==
    /\ resp.op = "schedule_request"
    /\ resp.code = 404
    /\ jobs # <<>>
    /\ failed_videos # <<>>

\* C26: the failure list holds at most 20 records, most recent first by
\* failure time, and what a write took out of it is no more recent than
\* anything it kept.
C26_CappedMostRecentFirst ==
    /\ Len(failed_videos) <= 20
    /\ \A i, k \in 1..Len(failed_videos) :
          i < k => fromisoformat(failed_videos[i].failure_time)
                   >= fromisoformat(failed_videos[k].failure_time)
    /\ resp.op = "schedule_request" =>
          \A d \in 1..Len(resp.dropped), i \in 1..Len(failed_videos) :
              fromisoformat(resp.dropped[d].failure_time)
              <= fromisoformat(failed_videos[i].failure_time)

\* A write to a full list took out a record older than all it kept, and the
\* list holds records of different times.
C26_Witness ==
    /\ resp.op = "schedule_request"
    /\ Len(failed_videos) = 20
    /\ resp.dropped # <<>>
    /\ fromisoformat(resp.dropped[1].failure_time)
       < fromisoformat(failed_videos[20].failure_time)
    /\ failed_videos[1].failure_time # failed_videos[20].failure_time

\* C23: save_job with an id the store already holds is refused and leaves
\* the record of that id as it was.
C23_DuplicateRefused ==
    [][(resp'.op = "save_job" /\ resp'.existed) =>
          /\ resp'.raised
          /\ jobs'[resp'.job_id] = jobs[resp'.job_id]]_vars

\* C24: update_job_status with an id the store does not hold raises
\* nothing, adds no record and leaves the records and the error messages
\* as they were.
C24_AbsentIdNoOp ==
    [][(resp'.op = "update_status" /\ ~resp'.existed) =>
          /\ ~resp'.raised
          /\ jobs' = jobs
          /\ errors' = errors]_vars

\* update_job_status was called with an absent id while the store held a
\* job.
C24_Witness ==
    /\ resp.op = "update_status"
    /\ ~resp.existed
    /\ resp.job_id \notin DOMAIN jobs
    /\ jobs # <<>>

\* C25: the view of a job answers 404 when the store does not hold the id
\* and 403 when the job is another user's; in both cases the platform is
\* not asked and the store stays as it was.
C25_NotFoundThenForbidden ==
    [][resp'.op = "job_status" =>
          /\ resp'.asked \notin DOMAIN jobs =>
                resp'.code = 404 /\ resp'.fetch = "skipped"
          /\ (resp'.asked \in DOMAIN jobs
              /\ jobs[resp'.asked].user_id # resp'.user) =>
                resp'.code = 403 /\ resp'.fetch = "skipped"
          /\ resp'.code # 200 => jobs' = jobs /\ errors' = errors]_vars

\* The job of another user, with its video on the platform, was asked for.
C25_Witness ==
    /\ resp.op = "job_status"
    /\ resp.code = 403
    /\ resp.asked \in DOMAIN jobs
    /\ jobs[resp.asked].user_id # resp.user
    /\ jobs[resp.asked].video_id # NoVideo
    /\ remote[jobs[resp.asked].video_id].exists

\* C27: a listing scoped to one channel holds entries of that channel
\* only, those of jobs and those of videos found on the platform.
C27_ScopedToChannel ==
    (Listed /\ resp.channel_id # "") =>
        \A i \in 1..Len(resp.jobs) :
            /\ resp.jobs[i].channel_id = resp.channel_id
            /\ resp.jobs[i].from_youtube =>
                  remote[resp.jobs[i].video_id].channel = resp.channel_id

\* A job of the user whose video the platform holds as private or
\* unlisted without a publishAt.
Unscheduled(j) ==
    /\ Fetched(j)
    /\ remote[jobs[j].video_id].privacy_status \in {"private", "unlisted"}
    /\ remote[jobs[j].video_id].publish_at = NoTime

\* C30: such a job is resolved by its own target instant: scheduled and
\* listed when the instant is ahead of now, uploaded and not listed when it
\* is now or past, or when the record has none.
C30_OwnTargetDecides ==
    Listed =>
        \A j \in JobIds :
            Unscheduled(j) =>
                /\ IF OwnTargetAhead(j)
                   THEN resp.status[j] = "scheduled" /\ Included(j)
                   ELSE resp.status[j] = "uploaded" /\ ~Included(j)
                /\ ResolveFetched([jobs[j] EXCEPT !.publish_datetime = NoTime],
                                  remote[jobs[j].video_id], now)
                   = Outcome("uploaded", FALSE)

\* Such a job was listed as scheduled although its record said otherwise.
C30_Witness ==
    /\ Listed
    /\ \E j \in JobIds :
          /\ Unscheduled(j)
          /\ OwnTargetAhead(j)
          /\ jobs[j].status # "scheduled"
          /\ resp.status[j] = "scheduled"
          /\ Included(j)

\* The step in which the write w reaches jobs.json.
Lands(w) ==
    /\ w \in inflight
    /\ w.phase = "read"
    /\ [w EXCEPT !.phase = "done"] \in inflight'

\* C28: when a write of one job reaches the store, every other job the
\* store holds stays in it as it was: a job created and a status written
\* by another thread in the meantime are kept.
C28_OtherJobsKept ==
    [][\A w \in inflight :
          Lands(w) =>
              \A j \in DOMAIN jobs \ {w.job_id} :
                  /\ j \in DOMAIN jobs'
                  /\ jobs'[j] = jobs[j]]_vars

\* C29: when a status write of a job reaches the store, the status of the
\* job is the one written, and the error message on the record is the one
\* written with it or, when none was, the one that was there.
C29_OtherFieldsKept ==
    [][\A w \in inflight :
          (Lands(w) /\ w.op = "update" /\ w.job_id \in DOMAIN jobs) =>
              /\ jobs'[w.job_id].status = w.status
              /\ errors'[w.job_id] = IF w.error_message # NoError
                                     THEN w.error_message
                                     ELSE errors[w.job_id]]_vars

\* The fields of a job record update_job_status never writes.
KeptFields(r) ==
    [job_id |-> r.job_id, user_id |-> r.user_id,
     channel_id |-> r.channel_id, publish_datetime |-> r.publish_datetime]

\* C31: update_job_status on a job the store holds sets the status, sets
\* the error message and the video id only when one is given, and leaves
\* the other fields of the job and every other job as they were.
C31_FieldGranular ==
    [][(resp'.op = "update_status" /\ resp'.existed) =>
          LET id == resp'.job_id IN
          /\ DOMAIN jobs' = DOMAIN jobs
          /\ jobs'[id].status = resp'.status
          /\ jobs'[id].video_id =
                IF resp'.video_id # NoVideo THEN resp'.video_id
                ELSE jobs[id].video_id
          /\ errors'[id] =
                IF resp'.error_message # NoError THEN resp'.error_message
                ELSE errors[id]
          /\ KeptFields(jobs'[id]) = KeptFields(jobs[id])
          /\ \A j \in DOMAIN jobs \ {id} : jobs'[j] = jobs[j]
          /\ \A j \in DOMAIN errors \ {id} : errors'[j] = errors[j]]_vars

\* update_job_status was called without an error message and without a
\* video id on a job that holds both, and the job keeps both under its
\* new status.
C31_Witness ==
    /\ resp.op = "update_status"
    /\ resp.existed
    /\ resp.error_message = NoError
    /\ resp.video_id = NoVideo
    /\ resp.status = "published"
    /\ jobs[resp.job_id].status = "published"
    /\ jobs[resp.job_id].video_id = OtherVideo
    /\ errors[resp.job_id] \in ErrorTexts

\* C32: for a job whose video's status was fetched, the status
\* sync_jobs_with_youtube persists is the status get_jobs resolves from the
\* same store, platform state and clock, whatever the privacy, the publish
\* instant on the platform and the job's own target.
C32_SyncPersistsListedStatus ==
    Listed =>
        \A j \in JobIds :
            Fetched(j) =>
                sync_jobs_with_youtube(resp.user, {}).store[j].status
                    = resp.status[j]

\* C33: in a listing that is not scoped to a channel and checks several
\* channels, every entry found only on the platform carries the id of the
\* channel whose listing reported the video.
C33_StampedWithReportingChannel ==
    (Listed /\ resp.channel_id = "") =>
        \A i \in 1..Len(resp.jobs) :
            resp.jobs[i].from_youtube =>
                resp.jobs[i].channel_id
                    = remote[resp.jobs[i].video_id].channel

C35_StoredJobsHaveVideo ==
    /\ resp.op = "schedule" =>
          /\ jobs[resp.job_id].status = "scheduled"
          /\ jobs[resp.job_id].video_id # NoVideo
    /\ \A j \in DOMAIN jobs :
          /\ jobs[j].video_id # NoVideo
          /\ jobs[j].status # "pending"

\* The timer of a stored job fired and the publication raised: the job is
\* failed and keeps its video id.
C35_Witness ==
    /\ resp.op = "fire"
    /\ resp.raised
    /\ resp.job_id \in DOMAIN jobs
    /\ jobs[resp.job_id].status = "failed"
    /\ jobs[resp.job_id].video_id # NoVideo

TimerIds(tm) == {t.job_id : t \in tm}

\* C36: a schedule request that is accepted reports every valid video as a
\* success or as a failure, success_count + failed_count = total; the jobs
\* it adds to the store and the timers it arms are those of the successes,
\* one each, so a failed video leaves no job and no timer.
C36_EachVideoOnce ==
    [][(resp'.op = "schedule_request" /\ resp'.code = 200) =>
          /\ Len(resp'.success) + resp'.failed_count = resp'.total
          /\ DOMAIN jobs' \ DOMAIN jobs = Range(resp'.success)
          /\ Cardinality(Range(resp'.success)) = Len(resp'.success)
          /\ TimerIds(timers') \ TimerIds(timers) = Range(resp'.success)
          /\ \A j \in DOMAIN jobs : jobs'[j] = jobs[j]
          /\ timers \subseteq timers']_vars

\* A request with two valid videos answered with one success and one
\* failure.
C36_Witness ==
    /\ resp.op = "schedule_request"
    /\ resp.code = 200
    /\ resp.total = 2
    /\ Len(resp.success) = 1
    /\ resp.failed_count = 1
    /\ resp.success[1] \in DOMAIN jobs
    /\ resp.success[1] \in TimerIds(timers)

\* C37: refreshing the failure log of a channel again, right after a
\* refresh and with the store as it was, leaves the log as the first
\* refresh left it, every failed job in it once.
C37_RefreshIdempotent ==
    [][(/\ resp.op = "refresh" /\ resp.code = 200
        /\ resp'.op = "refresh" /\ resp'.code = 200
        /\ resp'.user = resp.user /\ resp'.channel_id = resp.channel_id)
       => /\ failed_videos' = failed_videos
          /\ \A j \in DOMAIN jobs :
                Cardinality({i \in 1..Len(failed_videos') :
                                failed_videos'[i].job_id = j}) <= 1]_vars
====
